---- MODULE Spec2Model ----
(***************************************************************************)
(* The UAV dashboard script src/app.py as a state machine.  One run of the *)
(* script is one refresh cycle: fetch_data (memoised by st.cache_data with *)
(* a TTL), to_df on both documents, the collision alert, the top row of    *)
(* plots, the map, the summary metrics, the tables, then sleep and rerun.  *)
(* The page is the sequence of elements the current run has emitted.       *)
(***************************************************************************)
EXTENDS Integers, Sequences, FiniteSets, TLC

\* Longest "uavs" list the server model returns.
MaxLen == 2

\* src/app.py:13 and src/app.py:45
REFRESH_SEC == 2
TTL == 2

\* np.nan in a PredX / PredY cell: a value no coordinate takes (coordinates
\* below are naturals).
NaN == -1

\* The keys of `colors`, in insertion order.
labels == <<"safe", "outer_near", "inner_near", "collision">>

\* The stylesheet the script injects: .stAlert { display: none; }
stAlertDisplayNone == TRUE

VARIABLES
    pc,               \* where the current script run is
    cache,            \* st.cache_data store of fetch_data: <<>> or one entry
    before,           \* fetch_data's local `before` while the second GET runs
    data,             \* <<>> or <<data_before, data_after>>
    dfB, dfA,         \* the projected rows (a DataFrame's rows, in order)
    collision_count,
    page,             \* elements emitted by this run, in order
    events,           \* history of this run: GETs issued/resolved, projection
    origin            \* history: where this run's before/after came from

vars == <<pc, cache, before, data, dfB, dfA, collision_count, page, events, origin>>

(***************************************************************************)
(* The remote server: what a GET can produce.                              *)
(***************************************************************************)
\* UAV records as the server sends them.  "predicted" is a key only of the
\* records that carry a prediction.  "landed" is a status outside the
\* enumeration.
RecordPool ==
    { [uav_id |-> 1, x |-> 0, y |-> 0, status |-> "safe", min_distance_km |-> 2],
      [uav_id |-> 2, x |-> 1, y |-> 1, status |-> "collision", min_distance_km |-> 0,
       predicted |-> [x |-> 0, y |-> 1]],
      [uav_id |-> 3, x |-> 2, y |-> 0, status |-> "outer_near", min_distance_km |-> 1,
       predicted |-> [x |-> 2, y |-> 1]],
      [uav_id |-> 4, x |-> 0, y |-> 2, status |-> "inner_near", min_distance_km |-> 1],
      [uav_id |-> 5, x |-> 1, y |-> 2, status |-> "landed", min_distance_km |-> 2] }

SeqsUpTo(S, n) == UNION { [1..k -> S] : k \in 0..n }

\* JSON bodies .json() can return: with a "uavs" list, or without the key.
Documents ==
    { [uavs |-> s] : s \in SeqsUpTo(RecordPool, MaxLen) } \cup { [detail |-> "Not Found"] }

(***************************************************************************)
(* to_df                                                                   *)
(***************************************************************************)
\* u.get("predicted"): truthy exactly when the key is there (a non-empty dict)
HasPredicted(u) == "predicted" \in DOMAIN u

\* to_row with the absent prediction filled with 0 instead of np.nan
to_row_zero_fill(u) ==
    [UAV_ID |-> u.uav_id,
     X      |-> u.x,
     Y      |-> u.y,
     Status |-> u.status,
     dmin   |-> u.min_distance_km,
     PredX  |-> IF HasPredicted(u) THEN u.predicted.x ELSE 0,
     PredY  |-> IF HasPredicted(u) THEN u.predicted.y ELSE 0]

to_row(u) ==
    [UAV_ID |-> u.uav_id,
     X      |-> u.x,
     Y      |-> u.y,
     Status |-> u.status,
     dmin   |-> u.min_distance_km,
     PredX  |-> IF HasPredicted(u) THEN u.predicted.x ELSE NaN,
     PredY  |-> IF HasPredicted(u) THEN u.predicted.y ELSE NaN]

\* to_df building the rows back to front (rows.insert(0, ...))
to_df_reversed(doc) ==
    [i \in 1..Len(doc.uavs) |-> to_row(doc.uavs[Len(doc.uavs) + 1 - i])]

\* rows, in the order of data["uavs"]; pd.DataFrame(rows) keeps that order
to_df(doc) == [i \in 1..Len(doc.uavs) |-> to_row(doc.uavs[i])]

\* data["uavs"] raises KeyError on a document without the key
RaisesKeyError(doc) == "uavs" \notin DOMAIN doc

\* pd.DataFrame([]) has no columns: df["Status"] raises KeyError on it
HasColumns(df) == Len(df) > 0

notna(v) == v # NaN

\* df[df["Status"] == s]
WithStatus(df, s) == SelectSeq(df, LAMBDA r : r.Status = s)

\* sum(df["Status"] == s)
CountStatus(df, s) == Len(WithStatus(df, s))

\* dfB[dfB["PredX"].notna()]
Valid(df) == SelectSeq(df, LAMBDA r : notna(r.PredX))

RECURSIVE SumOf(_, _)
SumOf(df, col) == IF df = <<>> THEN 0 ELSE df[1][col] + SumOf(Tail(df), col)

\* Series.mean(), kept exact as <<sum, count>>
Mean(df, col) == <<SumOf(df, col), Len(df)>>

(***************************************************************************)
(* Page elements                                                           *)
(***************************************************************************)
Title == [kind |-> "title"]

\* st.error / st.success / st.info: an element of class stAlert
Alert(level, what, n) == [kind |-> "alert", level |-> level, what |-> what, count |-> n]

\* the box Streamlit renders for an exception the script did not catch
\* (class stException)
ExceptionBox(what) == [kind |-> "exception", what |-> what]

\* What the operator sees of an element once the stylesheet is applied.
Shown(el) == ~(el.kind = "alert" /\ stAlertDisplayNone)

FreshPage == <<Title>>

NoOrigin == [before |-> "none", after |-> "none"]

Init ==
    /\ pc = "run"
    /\ cache = <<>>
    /\ before = <<>>
    /\ data = <<>>
    /\ dfB = <<>>
    /\ dfA = <<>>
    /\ collision_count = 0
    /\ page = FreshPage
    /\ events = <<>>
    /\ origin = NoOrigin

(***************************************************************************)
(* fetch_data, under @st.cache_data(ttl=2), and the try/except around it   *)
(***************************************************************************)
Entry(b, a) == [before |-> b, after |-> a, age |-> 0]

\* fetch_data memoised per request: `before` comes from the store, the
\* second GET is issued anyway
CacheHit_before_only ==
    /\ pc = "run"
    /\ cache # <<>>
    /\ before' = <<cache[1].before>>
    /\ origin' = [origin EXCEPT !.before = "cache"]
    /\ pc' = "get_after"
    /\ UNCHANGED <<cache, data, dfB, dfA, collision_count, page, events>>

\* The entry is still live: the memoised pair is returned, no GET is issued.
CacheHit ==
    /\ pc = "run"
    /\ cache # <<>>
    /\ data' = <<cache[1].before, cache[1].after>>
    /\ origin' = [before |-> "cache", after |-> "cache"]
    /\ pc' = "fetched"
    /\ UNCHANGED <<cache, before, dfB, dfA, collision_count, page, events>>

\* except Exception: st.error(...); st.stop()
ConnectionFailed ==
    /\ page' = Append(page, Alert("error", "connection_failed", 0))
    /\ pc' = "stopped"

\* requests.get(".../uavs?process=false").json() returns a document
GetBeforeOk ==
    /\ pc = "run"
    /\ cache = <<>>
    /\ \E doc \in Documents : before' = <<doc>>
    /\ events' = events \o <<"get_before", "ok_before">>
    /\ origin' = [origin EXCEPT !.before = "get"]
    /\ pc' = "get_after"
    /\ UNCHANGED <<cache, data, dfB, dfA, collision_count, page>>

\* the first GET's exception swallowed with an empty document, the second
\* GET issued all the same
GetBeforeRaises_swallowed ==
    /\ pc = "run"
    /\ cache = <<>>
    /\ before' = <<[detail |-> "unavailable"]>>
    /\ events' = events \o <<"get_before", "raise_before">>
    /\ pc' = "get_after"
    /\ UNCHANGED <<cache, data, dfB, dfA, collision_count, page, origin>>

\* the first GET raises (connection error, timeout, body that is not JSON)
GetBeforeRaises ==
    /\ pc = "run"
    /\ cache = <<>>
    /\ events' = events \o <<"get_before", "raise_before">>
    /\ ConnectionFailed
    /\ UNCHANGED <<cache, before, data, dfB, dfA, collision_count, origin>>

\* the second GET returns: fetch_data returns (before, after) and the pair is
\* memoised as one entry
GetAfterOk ==
    /\ pc = "get_after"
    /\ \E doc \in Documents :
          /\ data' = <<before[1], doc>>
          /\ cache' = <<Entry(before[1], doc)>>
    /\ before' = <<>>
    /\ events' = events \o <<"get_after", "ok_after">>
    /\ origin' = [origin EXCEPT !.after = "get"]
    /\ pc' = "fetched"
    /\ UNCHANGED <<dfB, dfA, collision_count, page>>

\* the second GET raises: the exception leaves fetch_data, nothing is memoised
GetAfterRaises ==
    /\ pc = "get_after"
    /\ before' = <<>>
    /\ events' = events \o <<"get_after", "raise_after">>
    /\ origin' = NoOrigin
    /\ ConnectionFailed
    /\ UNCHANGED <<cache, data, dfB, dfA, collision_count>>

(***************************************************************************)
(* The rest of the script.  An exception nothing catches ends the run and  *)
(* Streamlit puts an exception box on the page.                             *)
(***************************************************************************)
Crash(what) ==
    /\ page' = Append(page, ExceptionBox(what))
    /\ pc' = "crashed"

\* to_df reading data.get("uavs", []) : a document without the key projects
\* to no rows
Project_defaulting ==
    /\ pc = "fetched"
    /\ dfB' = IF RaisesKeyError(data[1]) THEN <<>> ELSE to_df(data[1])
    /\ dfA' = IF RaisesKeyError(data[2]) THEN <<>> ELSE to_df(data[2])
    /\ events' = events \o <<"project_before", "project_after">>
    /\ pc' = "projected"
    /\ UNCHANGED <<cache, before, data, collision_count, page, origin>>

\* dfB = to_df(data_before); dfA = to_df(data_after)
Project ==
    /\ pc = "fetched"
    /\ IF RaisesKeyError(data[1])
       THEN /\ Crash("KeyError: 'uavs'")
            /\ UNCHANGED <<dfB, dfA, events>>
       ELSE IF RaisesKeyError(data[2])
       THEN /\ Crash("KeyError: 'uavs'")
            /\ dfB' = to_df(data[1])
            /\ events' = Append(events, "project_before")
            /\ UNCHANGED dfA
       ELSE /\ dfB' = to_df(data[1])
            /\ dfA' = to_df(data[2])
            /\ events' = events \o <<"project_before", "project_after">>
            /\ page' = page
            /\ pc' = "projected"
    /\ UNCHANGED <<cache, before, data, collision_count, origin>>

\* collision_count = sum(dfA["Status"] == "collision"); st.error / st.success
CollisionAlert ==
    /\ pc = "projected"
    /\ IF ~HasColumns(dfA)
       THEN /\ Crash("KeyError: 'Status'")
            /\ UNCHANGED collision_count
       ELSE /\ collision_count' = CountStatus(dfA, "collision")
            /\ page' = Append(page,
                   IF collision_count' > 0
                   THEN Alert("error", "collision", collision_count')
                   ELSE Alert("success", "no_collision", 0))
            /\ pc' = "alerted"
    /\ UNCHANGED <<cache, before, data, dfB, dfA, events, origin>>

Points(df) == [i \in 1..Len(df) |-> <<df[i].X, df[i].Y>>]
PredPoints(df) == [i \in 1..Len(df) |-> <<df[i].PredX, df[i].PredY>>]
LabelSet == { labels[i] : i \in 1..Len(labels) }

\* fig_top: four subplots, then st.plotly_chart
TopChart ==
    [kind |-> "top_chart",
     before      |-> [s \in LabelSet |-> Points(WithStatus(dfB, s))],
     pred_actual |-> Points(Valid(dfB)),
     predicted   |-> PredPoints(Valid(dfB)),
     after       |-> [s \in LabelSet |-> Points(WithStatus(dfA, s))],
     bars_before |-> [s \in LabelSet |-> CountStatus(dfB, s)],
     bars_after  |-> [s \in LabelSet |-> CountStatus(dfA, s)]]

TopRow ==
    /\ pc = "alerted"
    /\ IF ~HasColumns(dfB)
       THEN Crash("KeyError: 'Status'")
       ELSE /\ page' = Append(page, TopChart)
            /\ pc' = "top"
    /\ UNCHANGED <<cache, before, data, dfB, dfA, collision_count, events, origin>>

Markers(df) ==
    [i \in 1..Len(df) |->
        [lat |-> df[i].Y, lon |-> df[i].X,
         text |-> <<df[i].UAV_ID, df[i].Status, df[i].dmin>>]]

Vectors(df) ==
    [i \in 1..Len(df) |->
        [lat |-> <<df[i].Y, df[i].PredY>>, lon |-> <<df[i].X, df[i].PredX>>]]

\* map_fig: one marker trace per status of dfA, one line per predicted row of dfB
MapFigure ==
    [kind |-> "map",
     traces  |-> [s \in LabelSet |-> Markers(WithStatus(dfA, s))],
     vectors |-> Vectors(Valid(dfB)),
     center  |-> [lat |-> Mean(dfA, "Y"), lon |-> Mean(dfA, "X")]]

Map ==
    /\ pc = "top"
    /\ page' = Append(page, MapFigure)
    /\ pc' = "map"
    /\ UNCHANGED <<cache, before, data, dfB, dfA, collision_count, events, origin>>

Metrics ==
    [kind |-> "metrics",
     total      |-> Len(dfA),
     collisions |-> collision_count,
     avg_before |-> Mean(dfB, "dmin"),
     avg_after  |-> Mean(dfA, "dmin")]

\* the four st.metric cells and the st.info note
Summary ==
    /\ pc = "map"
    /\ page' = page \o <<Metrics, Alert("info", "map_note", 0)>>
    /\ pc' = "summary"
    /\ UNCHANGED <<cache, before, data, dfB, dfA, collision_count, events, origin>>

\* st.dataframe(dfB), st.dataframe(dfA)
Tables ==
    /\ pc = "summary"
    /\ page' = Append(page, [kind |-> "tables", before |-> dfB, after |-> dfA])
    /\ pc' = "sleep"
    /\ UNCHANGED <<cache, before, data, dfB, dfA, collision_count, events, origin>>

(***************************************************************************)
(* Time, the rerun, the operator                                           *)
(***************************************************************************)
\* the store after `sec` more seconds: an entry as old as the TTL is gone
Aged(c, sec) ==
    IF c = <<>> THEN <<>>
    ELSE IF c[1].age + sec >= TTL THEN <<>>
    ELSE <<[c[1] EXCEPT !.age = @ + sec]>>

NewRun ==
    /\ pc' = "run"
    /\ before' = <<>>
    /\ data' = <<>>
    /\ dfB' = <<>>
    /\ dfA' = <<>>
    /\ collision_count' = 0
    /\ page' = FreshPage
    /\ events' = <<>>
    /\ origin' = NoOrigin

\* time.sleep(REFRESH_SEC); st.rerun()
SleepAndRerun ==
    /\ pc = "sleep"
    /\ cache' = Aged(cache, REFRESH_SEC)
    /\ NewRun

\* a second goes by while the run is where it is
TimePasses ==
    /\ cache # <<>>
    /\ cache' = Aged(cache, 1)
    /\ UNCHANGED <<pc, before, data, dfB, dfA, collision_count, page, events, origin>>

\* the operator reloads the page: the running script is dropped, a new run starts
OperatorReload ==
    /\ pc # "run"
    /\ NewRun
    /\ UNCHANGED cache

ScriptStep ==
    \/ CacheHit
    \/ GetBeforeOk
    \/ GetBeforeRaises
    \/ GetAfterOk
    \/ GetAfterRaises
    \/ Project
    \/ CollisionAlert
    \/ TopRow
    \/ Map
    \/ Summary
    \/ Tables
    \/ SleepAndRerun

Next == ScriptStep \/ TimePasses \/ OperatorReload

Spec == Init /\ [][Next]_vars

\* The script runs whenever it has a next statement; nothing makes time pass
\* for the store or the operator act.
FairSpec == Spec /\ WF_vars(ScriptStep)

(***************************************************************************)
(* The claims                                                              *)
(***************************************************************************)
Occurs(e) == \E i \in DOMAIN events : events[i] = e
Count(e) == Cardinality({ i \in DOMAIN events : events[i] = e })
HasKind(k) == \E i \in DOMAIN page : page[i].kind = k
ErrorShown ==
    \E i \in DOMAIN page :
        /\ \/ page[i].kind = "exception"
           \/ page[i].kind = "alert" /\ page[i].level = "error"
                                     /\ page[i].what = "connection_failed"
        /\ Shown(page[i])
NothingRendered ==
    /\ ~HasKind("top_chart") /\ ~HasKind("map")
    /\ ~HasKind("metrics") /\ ~HasKind("tables")
GetRaised == Occurs("raise_before") \/ Occurs("raise_after")
Projected == Occurs("project_before") \/ Occurs("project_after")
MissingUavs == data # <<>> /\ (RaisesKeyError(data[1]) \/ RaisesKeyError(data[2]))
\* the cycle ended on a transport error (st.stop()) or on the KeyError of a
\* document without "uavs"
Aborted == pc = "stopped" \/ (pc = "crashed" /\ MissingUavs)
BothHaveUavs == data # <<>> /\ ~RaisesKeyError(data[1]) /\ ~RaisesKeyError(data[2])
KnownStatuses(doc) == \A i \in DOMAIN doc.uavs : doc.uavs[i].status \in LabelSet
SumBars(bars) ==
    bars["safe"] + bars["outer_near"] + bars["inner_near"] + bars["collision"]

\* C1: a cycle that aborted (st.stop() after a failed fetch, or an uncaught
\* data-contract exception) is eventually followed by a new cycle, and so a
\* new fetch attempt, without the operator doing anything.
C1_AbortedCycleRetries == Aborted ~> (pc = "run")

\* C2: when either GET of a cycle raises, the cycle shows an error state to the
\* operator and performs no projection and no chart, map, metric or table
\* rendering.
C2_FailedGetShowsErrorOnly ==
    GetRaised =>
        /\ ErrorShown
        /\ ~Projected /\ dfB = <<>> /\ dfA = <<>>
        /\ NothingRendered

\* C3: once a fetched document without the "uavs" key has been handed to to_df,
\* the cycle has aborted on the KeyError: no chart, alert, metric or table is on
\* the page, and the exception is shown to the operator.
C3_MissingUavsAborts ==
    (MissingUavs /\ pc # "fetched") =>
        /\ pc = "crashed"
        /\ NothingRendered /\ ~HasKind("alert")
        /\ page[Len(page)].kind = "exception" /\ Shown(page[Len(page)])

C3_Witness ==
    /\ pc = "crashed"
    /\ data # <<>>
    /\ ~RaisesKeyError(data[1]) /\ RaisesKeyError(data[2])
    /\ Len(data[1].uavs) > 0

\* C4: no cycle completes rendering with a record whose status is outside
\* {safe, outer_near, inner_near, collision} unless an error is shown.
C4_UnknownStatusSurfaced ==
    (pc = "sleep" /\ BothHaveUavs
        /\ ~(KnownStatuses(data[1]) /\ KnownStatuses(data[2])))
    => ErrorShown

\* C5: in every cycle that renders the status-distribution chart, the bars of
\* the before snapshot sum to its row count and the bars of the after snapshot
\* sum to its row count.
C5_BarsSumToRowCount ==
    \A i \in DOMAIN page :
        page[i].kind = "top_chart" =>
            /\ SumBars(page[i].bars_before) = Len(dfB)
            /\ SumBars(page[i].bars_after) = Len(dfA)

\* C6: for every well-formed after snapshot, the empty one included, once the
\* alert section has run the collision alert is on the page iff some row of the
\* after snapshot has status collision, with the number of such rows, and
\* otherwise the 'no collisions' indicator is.
C6_CollisionAlertMatchesAfter ==
    (BothHaveUavs /\ KnownStatuses(data[2])
        /\ Projected /\ pc # "projected") =>
        LET n == Cardinality({ i \in DOMAIN data[2].uavs :
                                  data[2].uavs[i].status = "collision" })
        IN  /\ n > 0 => \E i \in DOMAIN page :
                            page[i] = Alert("error", "collision", n)
            /\ n = 0 => \E i \in DOMAIN page :
                            page[i] = Alert("success", "no_collision", 0)
            /\ \A i \in DOMAIN page :
                   (page[i].kind = "alert" /\ page[i].what = "collision") => n > 0

\* C7: to_df gives one row per record of "uavs", in the order of the input,
\* each row with its record's id; ids that are distinct in the input are
\* distinct in the rows.
RowsMatch(df, doc) ==
    /\ Len(df) = Len(doc.uavs)
    /\ \A i \in DOMAIN df : df[i].UAV_ID = doc.uavs[i].uav_id
    /\ (\A i, j \in DOMAIN doc.uavs :
            i # j => doc.uavs[i].uav_id # doc.uavs[j].uav_id)
       => (\A i, j \in DOMAIN df : i # j => df[i].UAV_ID # df[j].UAV_ID)

C7_OneRowPerRecordInOrder ==
    /\ Occurs("project_before") => RowsMatch(dfB, data[1])
    /\ Occurs("project_after") => RowsMatch(dfA, data[2])

C7_Witness ==
    /\ pc = "projected"
    /\ Len(dfB) >= 2 /\ dfB[1].UAV_ID # dfB[2].UAV_ID
    /\ Len(dfA) >= 2 /\ dfA[1].UAV_ID = dfA[2].UAV_ID

\* C8: a record without "predicted" gives a row with PredX and PredY both NaN
\* (not 0), a record with it gives both coordinates unchanged; the prediction
\* scatter and the prediction vectors hold exactly the before rows that have a
\* prediction.
PredictedCopied(df, doc) ==
    \A i \in DOMAIN df :
        IF HasPredicted(doc.uavs[i])
        THEN /\ df[i].PredX = doc.uavs[i].predicted.x
             /\ df[i].PredY = doc.uavs[i].predicted.y
        ELSE /\ df[i].PredX = NaN /\ df[i].PredY = NaN
             /\ df[i].PredX # 0 /\ df[i].PredY # 0

WithPrediction(doc) == SelectSeq(doc.uavs, HasPredicted)

C8_PredictedAbsentIsNaN ==
    /\ Occurs("project_before") => PredictedCopied(dfB, data[1])
    /\ Occurs("project_after") => PredictedCopied(dfA, data[2])
    /\ \A k \in DOMAIN page :
        /\ page[k].kind = "top_chart" =>
            LET w == WithPrediction(data[1])
            IN  /\ page[k].predicted =
                       [i \in DOMAIN w |-> <<w[i].predicted.x, w[i].predicted.y>>]
                /\ page[k].pred_actual = [i \in DOMAIN w |-> <<w[i].x, w[i].y>>]
        /\ page[k].kind = "map" =>
            LET w == WithPrediction(data[1])
            IN  page[k].vectors =
                    [i \in DOMAIN w |->
                        [lat |-> <<w[i].y, w[i].predicted.y>>,
                         lon |-> <<w[i].x, w[i].predicted.x>>]]

C8_Witness ==
    /\ pc = "map"
    /\ Len(dfB) = 2
    /\ dfB[1].PredX = NaN /\ dfB[1].PredY = NaN
    /\ dfB[2].PredX = 0 /\ dfB[2].PredY = 1
    /\ Len(page[Len(page)].vectors) = 1

\* C9: in one cycle the before GET is issued and resolved first, the after GET
\* is issued only after the before GET returned, each at most once, and
\* projection starts only after both have returned (or the pair came from the
\* store and no GET is issued); after a failed before GET no after GET is
\* issued, and nothing is projected after a failed GET.
Before(a, b) ==
    \A j \in DOMAIN events :
        events[j] = b => \E i \in 1..(j - 1) : events[i] = a

C9_FetchOrder ==
    /\ Count("get_before") <= 1 /\ Count("get_after") <= 1
    /\ Before("get_before", "ok_before") /\ Before("get_before", "raise_before")
    /\ Before("ok_before", "get_after")
    /\ Before("get_after", "ok_after") /\ Before("get_after", "raise_after")
    /\ Occurs("raise_before") => ~Occurs("get_after")
    /\ GetRaised => ~Projected
    /\ Before("project_before", "project_after")
    /\ IF origin.before = "cache" /\ origin.after = "cache"
       THEN ~Occurs("get_before") /\ ~Occurs("get_after")
       ELSE Before("ok_before", "project_before")
            /\ Before("ok_after", "project_before")

C9_Witness ==
    events = <<"get_before", "ok_before", "get_after", "ok_after",
               "project_before", "project_after">>

\* C10: the store holds the pair as one entry: the pair a cycle works on comes
\* whole from the store or whole from this cycle's two GETs, an entry is
\* written only as the pair the same fetch_data call returns, a hit returns
\* the stored pair, and a cycle whose GET raised leaves the store as it was.
StoredPair(c) == IF c = <<>> THEN <<>> ELSE <<c[1].before, c[1].after>>

C10_PairFromOneInvocation ==
    /\ [](data # <<>> =>
            /\ origin.before = origin.after
            /\ origin.before \in {"cache", "get"})
    /\ [][(cache' # <<>> /\ StoredPair(cache') # StoredPair(cache)) =>
            /\ data' = StoredPair(cache')
            /\ origin' = [before |-> "get", after |-> "get"]]_vars
    /\ [][(origin'.before = "cache" /\ origin.before # "cache") =>
            /\ cache # <<>>
            /\ data' = StoredPair(cache)
            /\ origin'.after = "cache"]_vars
    /\ [][(pc # "stopped" /\ pc' = "stopped") => cache' = cache]_vars

C10_Witness ==
    /\ pc = "sleep"
    /\ origin = [before |-> "cache", after |-> "cache"]
    /\ cache = <<>>
====
